---- MODULE Spec2Model ----
(***************************************************************************)
(* unified-storage: the Storage trait, the WriteBehavior taxonomy and the  *)
(* two adapters MultiWriteNorFlash<S> and NorFlash<S> of src/lib.rs.       *)
(*                                                                         *)
(* An adapter owns one wrapped device S (self.0).  S is a type parameter:  *)
(* its behaviour is the one the trait documents (lib.rs 24-42 and 45-66).  *)
(* What the documentation leaves undefined is a nondeterministic choice,   *)
(* and S may answer any call that passes its validation with an error of   *)
(* its own (type Error = S::Error).                                        *)
(***************************************************************************)
EXTENDS Integers, Sequences, FiniteSets

VARIABLES
    adapter,    \* which wrapper type holds the device
    native,     \* how the wrapped device combines successive writes
    rs,         \* S::READ_SIZE
    ws,         \* S::WRITE_SIZE
    mem,        \* the wrapped device's stored bytes, address -> byte
    unit,       \* per erase unit: its place in the write-budget cycle
    pc,         \* "idle", or "awaiting": suspended at self.0.<op>(..).await
    call,       \* the call the adapter received (current or last)
    devCall,    \* the call the adapter made to self.0 for it (or NoCall)
    devRet,     \* what self.0 returned
    ret,        \* what the adapter returned
    buf         \* the caller's buffer of the current or last read

vars == <<adapter, native, rs, ws, mem, unit, pc, call, devCall, devRet, ret, buf>>

(* ---------------------------------------------------------------- bounds *)

\* longest buffer handed to read or write
MaxLen == 2

\* number of erase units of the wrapped device
NumUnits == 1

(* ------------------------------------------------------ device profile *)

\* S::ERASE_SIZE of the wrapped device
ERASE_SIZE == 2

Adapters == {"MultiWriteNorFlash", "NorFlash"}

WriteBehaviors == {"Once", "TwiceSecondZero", "TwiceAnd", "InfiniteAnd", "InfiniteDirect"}

\* S: MultiwriteNorFlash tolerates repeated writes and ANDs them;
\* S: NorFlash is any erasable device.
Wrappable(a) ==
    IF a = "MultiWriteNorFlash" THEN {"TwiceAnd", "InfiniteAnd"} ELSE WriteBehaviors

SizeChoices == {1, 2}

\* byte values the model stores: closed under bitwise AND
Bytes == {0, 15, 240, 255}

\* byte values a caller writes
DataBytes == {0, 15, 240}

\* const ERASE_VALUE: u8 = 0xFF, in both impls
ERASE_VALUE(a) ==
    IF a = "MultiWriteNorFlash" THEN 255 ELSE 255

\* WRITE_BEHAVIOR with one impl's value copied into the other
WRITE_BEHAVIOR_Same(a) == "TwiceAnd"

\* const WRITE_BEHAVIOR
WRITE_BEHAVIOR(a) ==
    IF a = "MultiWriteNorFlash" THEN "TwiceAnd" ELSE "Once"

\* const READ_SIZE: usize = S::READ_SIZE
READ_SIZE == rs

\* const WRITE_SIZE: usize = S::WRITE_SIZE
WRITE_SIZE == ws

\* self.0.capacity(): the highest address, exclusive
DevCapacity == NumUnits * ERASE_SIZE

Addrs == 0 .. (DevCapacity - 1)

Units == 0 .. (NumUnits - 1)

UnitOf(i) == i \div ERASE_SIZE

(* ------------------------------------------------------------- helpers *)

RECURSIVE BitAnd(_, _)
BitAnd(x, y) ==
    IF x = 0 \/ y = 0 THEN 0
    ELSE (x % 2) * (y % 2) + 2 * BitAnd(x \div 2, y \div 2)

AllZero(d) == \A k \in 1 .. Len(d) : d[k] = 0

\* the bytes of m at [off, off + len)
Slice(m, off, len) ==
    [k \in 1 .. len |-> IF off + k - 1 \in DOMAIN m THEN m[off + k - 1] ELSE 0]

Zeros(len) == [k \in 1 .. len |-> 0]

\* a call: the operation, its two arguments (offset and length, or from and
\* to) and the bytes handed to write
Call(op, a, b, data) == <<op, a, b, data>>

OpOf(c) == c[1]

ArgA(c) == c[2]

ArgB(c) == c[3]

DataOf(c) == c[4]

NoCall == Call("none", 0, 0, <<>>)

\* a result: Ok or the error, and the value capacity returns
Outcome(res, val) == <<res, val>>

ResOf(r) == r[1]

ValOf(r) == r[2]

NoRet == Outcome("none", 0)

Result(r) == Outcome(r, 0)

(* ------------------------------------------ WriteBehavior (lib.rs 45-66) *)

Infinite(wb) == wb \in {"InfiniteAnd", "InfiniteDirect"}

UnitStates(wb) ==
    CASE wb = "Once" -> {"Erased", "Written1", "Undefined"}
      [] wb \in {"TwiceSecondZero", "TwiceAnd"} ->
            {"Erased", "Written1", "Written2", "Undefined"}
      [] OTHER -> {"Erased", "Written"}

\* AfterWrite with a third TwiceAnd write and a non-zero second
\* TwiceSecondZero write taken as within the budget
AfterWriteOneMore(wb, s, d) ==
    CASE Infinite(wb) -> "Written"
      [] s = "Erased" -> "Written1"
      [] s = "Written1" /\ wb \in {"TwiceAnd", "TwiceSecondZero"} -> "Written2"
      [] s = "Written2" /\ wb = "TwiceAnd" -> "Written2"
      [] OTHER -> "Undefined"

\* the state of a unit after one more write of data d
AfterWrite(wb, s, d) ==
    CASE Infinite(wb) -> "Written"
      [] s = "Erased" -> "Written1"
      [] s = "Written1" /\ wb = "TwiceAnd" -> "Written2"
      [] s = "Written1" /\ wb = "TwiceSecondZero" /\ AllZero(d) -> "Written2"
      [] OTHER -> "Undefined"

\* Combine with the written byte dropped
CombineKeep(wb, old, new) == old

\* Combine without the AND
CombineDirect(wb, old, new) == new

\* the byte stored when new is written over old within the budget
Combine(wb, old, new) ==
    IF wb \in {"TwiceAnd", "InfiniteAnd"} THEN BitAnd(old, new) ELSE new

(* ------------------------------------- validation (lib.rs 29, 34, 38) *)

\* CheckRead without the capacity test
CheckReadNoBounds(off, len) ==
    IF off % READ_SIZE # 0 \/ len % READ_SIZE # 0 THEN "NotAligned" ELSE "Ok"

\* offset and length must be multiples of READ_SIZE; nothing is stored at
\* or above capacity()
CheckRead(off, len) ==
    IF off % READ_SIZE # 0 \/ len % READ_SIZE # 0 THEN "NotAligned"
    ELSE IF off + len > DevCapacity THEN "OutOfBounds"
    ELSE "Ok"

\* CheckErase without the from <= to test
CheckEraseNoOrder(from, to) ==
    IF from % ERASE_SIZE # 0 \/ to % ERASE_SIZE # 0 THEN "NotAligned"
    ELSE IF to > DevCapacity THEN "OutOfBounds"
    ELSE "Ok"

\* from and to must be multiples of ERASE_SIZE and bound a range of the device
CheckErase(from, to) ==
    IF from % ERASE_SIZE # 0 \/ to % ERASE_SIZE # 0 THEN "NotAligned"
    ELSE IF from > to \/ to > DevCapacity THEN "OutOfBounds"
    ELSE "Ok"

\* offset and length must be multiples of WRITE_SIZE, within capacity()
CheckWrite(off, len) ==
    IF off % WRITE_SIZE # 0 \/ len % WRITE_SIZE # 0 THEN "NotAligned"
    ELSE IF off + len > DevCapacity THEN "OutOfBounds"
    ELSE "Ok"

\* Runs with the capacity test made after the operation
RunsUnlessMisaligned(chk) == chk # "NotAligned"

\* an operation touches the device only when its validation passed
Runs(chk) == chk = "Ok"

(* ------------------------------------------------- adapter forwarding *)

\* Forward with the bounds of erase exchanged
ForwardSwapped(c) ==
    IF OpOf(c) = "erase" THEN Call(OpOf(c), ArgB(c), ArgA(c), DataOf(c)) ELSE c

\* the call self.0 receives for the call c the adapter received
Forward(c) == c

\* EraseBytes stopping one byte early
EraseBytesShort(m, a, from, to) ==
    [i \in Addrs |-> IF from <= i /\ i < to - 1 THEN ERASE_VALUE(a) ELSE m[i]]

\* the stored bytes after erasing [from, to)
EraseBytes(m, a, from, to) ==
    [i \in Addrs |-> IF from <= i /\ i < to THEN ERASE_VALUE(a) ELSE m[i]]

\* FlushResult as a failure
FlushResultErr == Result("Other")

\* flush: Ok(())
FlushResult == Result("Ok")

\* the adapter's result for the result r of self.0
Returned(r) == r

(* ---------------------------------------------------------------- Init *)

Init ==
    /\ adapter \in Adapters
    /\ native \in Wrappable(adapter)
    /\ rs \in SizeChoices
    /\ ws \in SizeChoices
    /\ \E v \in Bytes :
          /\ mem = [i \in Addrs |-> v]
          /\ \E s \in UnitStates(native) :
                /\ (s = "Erased") => (v = ERASE_VALUE(adapter))
                /\ unit = [u \in Units |-> s]
    /\ pc = "idle"
    /\ call = NoCall
    /\ devCall = NoCall
    /\ devRet = NoRet
    /\ ret = NoRet
    /\ buf = <<>>

(* ------------------------------------------------------------- actions *)

\* fn capacity(&self) -> usize { self.0.capacity() }
Capacity ==
    /\ pc = "idle"
    /\ call' = Call("capacity", 0, 0, <<>>)
    /\ devCall' = Forward(call')
    /\ devRet' = Outcome("Ok", DevCapacity)
    /\ ret' = Returned(devRet')
    /\ UNCHANGED <<adapter, native, rs, ws, mem, unit, pc, buf>>

\* the adapter is entered and calls self.0.<op>(same arguments)
Begin(c) ==
    /\ pc = "idle"
    /\ pc' = "awaiting"
    /\ call' = c
    /\ devCall' = Forward(c)
    /\ devRet' = NoRet
    /\ ret' = NoRet
    /\ buf' = IF OpOf(c) = "read" THEN Zeros(ArgB(c)) ELSE <<>>
    /\ UNCHANGED <<adapter, native, rs, ws, mem, unit>>

ReadCall ==
    \E off \in 0 .. DevCapacity, len \in 0 .. MaxLen :
        Begin(Call("read", off, len, <<>>))

EraseCall ==
    \E from \in 0 .. DevCapacity, to \in 0 .. (DevCapacity + ERASE_SIZE) :
        Begin(Call("erase", from, to, <<>>))

WriteCall ==
    \E off \in 0 .. DevCapacity, len \in 0 .. MaxLen :
        \E d \in [1 .. len -> DataBytes] :
            Begin(Call("write", off, len, d))

\* self.0 finishes with result r; the adapter returns
Finish(r) ==
    /\ pc' = "idle"
    /\ devRet' = r
    /\ ret' = Returned(r)
    /\ UNCHANGED <<adapter, native, rs, ws, call, devCall>>

\* self.0.read(offset, bytes)
DevRead ==
    /\ pc = "awaiting"
    /\ OpOf(devCall) = "read"
    /\ LET chk == CheckRead(ArgA(devCall), ArgB(devCall)) IN
         /\ Finish(Result(chk))
         /\ buf' = IF Runs(chk) THEN Slice(mem, ArgA(devCall), ArgB(devCall)) ELSE buf
    /\ UNCHANGED <<mem, unit>>

\* self.0.erase(from, to)
DevErase ==
    /\ pc = "awaiting"
    /\ OpOf(devCall) = "erase"
    /\ LET chk == CheckErase(ArgA(devCall), ArgB(devCall))
           hit(i) == ArgA(devCall) <= i /\ i < ArgB(devCall)
       IN
         /\ Finish(Result(chk))
         /\ mem' = IF Runs(chk)
                   THEN EraseBytes(mem, adapter, ArgA(devCall), ArgB(devCall))
                   ELSE mem
         /\ unit' = IF Runs(chk)
                    THEN [u \in Units |->
                            IF hit(u * ERASE_SIZE) THEN "Erased" ELSE unit[u]]
                    ELSE unit
    /\ UNCHANGED buf

\* self.0.write(offset, bytes)
DevWrite ==
    /\ pc = "awaiting"
    /\ OpOf(devCall) = "write"
    /\ LET chk == CheckWrite(ArgA(devCall), ArgB(devCall))
           hit(i) == ArgA(devCall) <= i /\ i < ArgA(devCall) + ArgB(devCall)
           touched(u) == \E i \in Addrs : hit(i) /\ UnitOf(i) = u
           next == [u \in Units |->
                      IF touched(u) THEN AfterWrite(native, unit[u], DataOf(devCall))
                      ELSE unit[u]]
           \* the written bytes whose unit is past its budget: any value
           undef == {i \in Addrs : hit(i) /\ next[UnitOf(i)] = "Undefined"}
       IN
         /\ Finish(Result(chk))
         /\ IF Runs(chk)
            THEN /\ unit' = next
                 /\ \E g \in [undef -> Bytes] :
                       mem' = [i \in Addrs |->
                                 IF ~hit(i) THEN mem[i]
                                 ELSE IF i \in undef THEN g[i]
                                 ELSE Combine(native, mem[i],
                                              DataOf(devCall)[i - ArgA(devCall) + 1])]
            ELSE UNCHANGED <<mem, unit>>
    /\ UNCHANGED buf

\* self.0 answers a call that passed its validation with an error of its own
DevFault ==
    /\ pc = "awaiting"
    /\ \/ OpOf(devCall) = "read" /\ CheckRead(ArgA(devCall), ArgB(devCall)) = "Ok"
       \/ OpOf(devCall) = "erase" /\ CheckErase(ArgA(devCall), ArgB(devCall)) = "Ok"
       \/ OpOf(devCall) = "write" /\ CheckWrite(ArgA(devCall), ArgB(devCall)) = "Ok"
    /\ Finish(Result("Other"))
    /\ UNCHANGED <<mem, unit, buf>>

\* async fn flush(&mut self) { Ok(()) }
Flush ==
    /\ pc = "idle"
    /\ call' = Call("flush", 0, 0, <<>>)
    /\ devCall' = NoCall
    /\ devRet' = NoRet
    /\ ret' = FlushResult
    /\ buf' = <<>>
    /\ UNCHANGED <<adapter, native, rs, ws, mem, unit, pc>>

Next ==
    \/ Capacity
    \/ ReadCall
    \/ EraseCall
    \/ WriteCall
    \/ DevRead
    \/ DevErase
    \/ DevWrite
    \/ DevFault
    \/ Flush

Spec == Init /\ [][Next]_vars

(* ------------------------------------------------------ step predicates *)

\* the step in which self.0 returns from operation op
Completes(op) == pc = "awaiting" /\ pc' = "idle" /\ OpOf(devCall) = op

\* the adapter has returned from operation op
HasReturned(op) == pc = "idle" /\ OpOf(call) = op

Covers(c, i) == ArgA(c) <= i /\ i < ArgA(c) + ArgB(c)

InErase(c, i) == ArgA(c) <= i /\ i < ArgB(c)

Touches(c, u) == \E i \in Addrs : Covers(c, i) /\ UnitOf(i) = u

Forwarded == {"capacity", "read", "erase", "write"}

Rejections == {"NotAligned", "OutOfBounds"}

(* ---------------------------------------------------------------- C1 *)

\* C1: every capacity/read/erase/write call reaches the wrapped device with
\* the same arguments, and the adapter returns exactly the device's result,
\* success or the device's own error value; the adapter never turns an
\* accepted call into a rejected one or the reverse.
C1_Forwarding ==
    /\ OpOf(call) \in Forwarded => devCall = call
    /\ (pc = "idle" /\ OpOf(call) \in Forwarded) => ret = devRet
    /\ (pc = "idle" /\ OpOf(call) = "capacity") => ValOf(ret) = DevCapacity

C1_Witness ==
    /\ HasReturned("erase")
    /\ ArgA(call) = ERASE_SIZE /\ ArgB(call) = 0
    /\ devCall = call
    /\ ResOf(devRet) = "OutOfBounds"
    /\ ret = devRet

(* ---------------------------------------------------------------- C2 *)

\* C2: NorFlash always reports write_behavior Once and erase_value 0xFF,
\* MultiWriteNorFlash always TwiceAnd and 0xFF, whatever the wrapped device
\* does natively and whatever operations have run.
C2_Constants ==
    /\ adapter = "NorFlash" =>
          WRITE_BEHAVIOR(adapter) = "Once" /\ ERASE_VALUE(adapter) = 255
    /\ adapter = "MultiWriteNorFlash" =>
          WRITE_BEHAVIOR(adapter) = "TwiceAnd" /\ ERASE_VALUE(adapter) = 255

C2_Witness ==
    /\ adapter = "NorFlash"
    /\ native = "InfiniteDirect"
    /\ HasReturned("write")
    /\ ResOf(ret) = "Ok"
    /\ unit[0] = "Written"
    /\ mem[0] = 15

(* ---------------------------------------------------------------- C3 *)

EraseArgsValid(c) ==
    /\ ArgA(c) % ERASE_SIZE = 0
    /\ ArgB(c) % ERASE_SIZE = 0
    /\ ArgA(c) <= ArgB(c)
    /\ ArgB(c) <= DevCapacity

C4_ErasedAfterErase ==
    (HasReturned("erase") /\ ResOf(ret) = "Ok") =>
        \A i \in Addrs : InErase(call, i) => mem[i] = ERASE_VALUE(adapter)

C4_ErasedStays ==
    \A i \in Addrs :
        (mem[i] = ERASE_VALUE(adapter) /\ mem'[i] # ERASE_VALUE(adapter)) =>
            (Completes("write") /\ ResOf(ret') \notin Rejections /\ Covers(devCall, i))

C4_ErasedReadsBack ==
    (Completes("read") /\ ResOf(ret') = "Ok") =>
        /\ Len(buf') = ArgB(devCall)
        /\ \A k \in 1 .. ArgB(devCall) :
              mem[ArgA(devCall) + k - 1] = ERASE_VALUE(adapter) =>
                  buf'[k] = ERASE_VALUE(adapter)

C4_EraseValueHolds ==
    /\ []C4_ErasedAfterErase
    /\ [][C4_ErasedStays /\ C4_ErasedReadsBack]_vars

C4_Witness ==
    /\ HasReturned("read")
    /\ ResOf(ret) = "Ok"
    /\ ArgA(call) = 0 /\ ArgB(call) = 2
    /\ unit[0] = "Erased"
    /\ buf = <<255, 255>>

(* ---------------------------------------------------------------- C5 *)

ReadArgsValid(c) ==
    /\ ArgA(c) % READ_SIZE = 0
    /\ ArgB(c) % READ_SIZE = 0
    /\ ArgA(c) + ArgB(c) <= DevCapacity

WriteArgsValid(c) ==
    /\ ArgA(c) % WRITE_SIZE = 0
    /\ ArgB(c) % WRITE_SIZE = 0
    /\ ArgA(c) + ArgB(c) <= DevCapacity

C6_FirstWriteStores ==
    (/\ Completes("write")
     /\ ResOf(ret') = "Ok"
     /\ \A u \in Units : Touches(devCall, u) => unit[u] = "Erased") =>
        Slice(mem', ArgA(devCall), ArgB(devCall)) = DataOf(devCall)

C6_OnlyWriteOrEraseChanges ==
    mem' # mem =>
        (Completes("write") \/ Completes("erase")) /\ ResOf(ret') \notin Rejections

C6_ReadReturnsStored ==
    (Completes("read") /\ ResOf(ret') = "Ok") =>
        buf' = Slice(mem, ArgA(devCall), ArgB(devCall)) /\ mem' = mem

C6_RoundTrip ==
    [][C6_FirstWriteStores /\ C6_OnlyWriteOrEraseChanges /\ C6_ReadReturnsStored]_vars

C6_Witness ==
    /\ HasReturned("read")
    /\ ResOf(ret) = "Ok"
    /\ ArgA(call) = 0 /\ ArgB(call) = 2
    /\ unit[0] = "Written1"
    /\ buf = <<15, 240>>

(* ---------------------------------------------------------------- C7 *)

AndBehaviors == {"TwiceAnd", "InfiniteAnd"}

\* the write now completing is the first or second since the unit's erase
\* (any write, on an InfiniteAnd device)
WithinAndBudget(u) == native = "InfiniteAnd" \/ unit[u] \in {"Erased", "Written1"}

C7_WritesAnd ==
    (/\ Completes("write")
     /\ ResOf(ret') = "Ok"
     /\ native \in AndBehaviors
     /\ \A u \in Units : Touches(devCall, u) => WithinAndBudget(u)) =>
        \A i \in Addrs :
            Covers(devCall, i) =>
                mem'[i] = BitAnd(mem[i], DataOf(devCall)[i - ArgA(devCall) + 1])

EraseStep == Completes("erase") /\ ResOf(ret') = "Ok"

NoBitSet(i) == BitAnd(mem'[i], mem[i]) = mem'[i]

\* C7 as stated: on a TwiceAnd or InfiniteAnd device (the multi-write adapter
\* wraps only these) the writes after an erase AND into the stored bytes, and
\* no stored bit goes from 0 back to 1 between two erases.
C7_AndLawStated ==
    [][/\ C7_WritesAnd
       /\ (native \in AndBehaviors /\ ~EraseStep) => \A i \in Addrs : NoBitSet(i)]_vars

\* C7 as amended: the writes after an erase AND into the stored bytes, and no
\* stored bit goes from 0 back to 1 between two erases as long as the unit's
\* write budget is kept (on TwiceAnd, at most two writes since its erase).
C7_AndLawInBudget ==
    [][/\ C7_WritesAnd
       /\ (native \in AndBehaviors /\ ~EraseStep) =>
             \A i \in Addrs : unit'[UnitOf(i)] # "Undefined" => NoBitSet(i)]_vars

C7_Witness ==
    /\ adapter = "MultiWriteNorFlash"
    /\ native = "TwiceAnd"
    /\ HasReturned("write")
    /\ ResOf(ret) = "Ok"
    /\ ArgA(call) = 0 /\ DataOf(call) = <<240>>
    /\ unit[0] = "Written2"
    /\ mem[0] = 0
    /\ mem[1] = 255

(* ---------------------------------------------------------------- C8 *)

C8_FlushState ==
    /\ pc = "idle" => ENABLED Flush
    /\ OpOf(call) = "flush" =>
          /\ pc = "idle"
          /\ ResOf(ret) = "Ok"
          /\ devCall = NoCall
          /\ devRet = NoRet

C8_FlushStep ==
    (pc = "idle" /\ OpOf(call') = "flush") =>
        /\ mem' = mem
        /\ unit' = unit
        /\ pc' = "idle"
        /\ OpOf(call) = "flush" => UNCHANGED vars

\* C8: on both adapters flush succeeds whenever no call is in progress,
\* makes no call to the wrapped device, leaves the stored bytes as they are,
\* leaves nothing in flight, and a second flush right after changes nothing.
C8_Flush ==
    /\ []C8_FlushState
    /\ [][C8_FlushStep]_vars

C8_Witness ==
    /\ OpOf(call) = "flush"
    /\ ResOf(ret) = "Ok"
    /\ unit[0] = "Written1"
    /\ mem[0] = 15
    /\ mem[1] = 240

(* ---------------------------------------------------------------- C9 *)

ArgsValid(c) ==
    CASE OpOf(c) = "read" -> ReadArgsValid(c)
      [] OpOf(c) = "erase" -> EraseArgsValid(c)
      [] OpOf(c) = "write" -> WriteArgsValid(c)
      [] OTHER -> TRUE

Budget(wb) == IF wb = "Once" THEN 1 ELSE 2

Count(s) == CASE s = "Erased" -> 0 [] s = "Written1" -> 1 [] OTHER -> 2

Written(n) == IF n = 1 THEN "Written1" ELSE "Written2"

WriteAllowed(wb, s, d) ==
    /\ s # "Undefined"
    /\ Count(s) < Budget(wb)
    /\ (wb = "TwiceSecondZero" /\ Count(s) = 1) => AllZero(d)

C10_UnitStep ==
    \A u \in Units :
        LET erased == EraseStep /\ InErase(devCall, u * ERASE_SIZE)
            written == Completes("write") /\ ResOf(ret') = "Ok" /\ Touches(devCall, u)
        IN
          /\ erased => unit'[u] = "Erased"
          /\ written =>
                unit'[u] = IF Infinite(native) THEN "Written"
                           ELSE IF WriteAllowed(native, unit[u], DataOf(devCall))
                                THEN Written(Count(unit[u]) + 1)
                                ELSE "Undefined"
          /\ unit'[u] # unit[u] => erased \/ written
          /\ (unit[u] = "Undefined" /\ unit'[u] # "Undefined") => erased

C10_InfiniteNeverUndefined ==
    Infinite(native) => \A u \in Units : unit[u] # "Undefined"

\* C10: per erase unit, a successful erase leads to Erased from any state;
\* a successful write advances one step while budget remains (1 for Once, 2
\* for TwiceSecondZero and TwiceAnd, unbounded for the Infinite behaviours);
\* a write beyond the budget, or a non-zero second write under
\* TwiceSecondZero, leads to Undefined, which only an erase leaves; the
\* Infinite behaviours never reach Undefined.
C10_UnitMachine ==
    /\ []C10_InfiniteNeverUndefined
    /\ [][C10_UnitStep]_vars

C10_Witness ==
    /\ native = "TwiceSecondZero"
    /\ HasReturned("write")
    /\ ResOf(ret) = "Ok"
    /\ DataOf(call) = <<15>>
    /\ unit[0] = "Undefined"
    /\ mem[0] = 240

====
